---- MODULE Spec2Model ----
(***************************************************************************)
(* MONITORING.py: a Flask backend in front of Google Earth Engine.         *)
(* The model covers module load (credential initialisation) and the four   *)
(* routes /, /monitor, /tiles and /timeseries.  Every call into the ee      *)
(* library is recorded in a per-request call log, and each of them may      *)
(* raise.                                                                   *)
(***************************************************************************)
EXTENDS Integers, Sequences, FiniteSets, TLC

VARIABLES
    pc,              \* "load" while the module is being imported, then "serving"
    env,             \* os.environ: the credential variables
    EE_AVAILABLE,    \* module global, line 26
    EE_INITIALIZED,  \* module global, line 27
    EE_INIT_ERROR,   \* module global, line 28 ("None" models Python's None)
    attempts,        \* the ee.Initialize attempts made during module load
    request,         \* the request being handled, or NoRequest
    response,        \* what the handler returned for it, or NoResponse
    calls,           \* the ee calls the handler made for this request
    raised,          \* the index in calls of the call that raised, 0 when none did
    answer,          \* what the service answered to this request's last call
    bodyRead,        \* whether the handler called request.get_json()
    \* the page monitor.html, lines 377-465
    currentPolygon,     \* the drawn polygon (numbered in drawing order), 0 before any
    layerSection,       \* #layerSection is displayed
    timeseriesSection,  \* #timeseriesSection is displayed
    checkedLayer,       \* the checked radio button of name "layer"
    layerStatus,        \* the text of #layerStatus
    geeLayer,           \* the tile layer on the map, or NoLayer
    fetches,            \* the /tiles fetches of loadImagery still unanswered
    loaded              \* the polygons a /tiles answer of status ok came back for

vars == <<pc, env, EE_AVAILABLE, EE_INITIALIZED, EE_INIT_ERROR, attempts,
          request, response, calls, raised, answer, bodyRead>>

cred == <<EE_AVAILABLE, EE_INITIALIZED, EE_INIT_ERROR>>

pageVars == <<currentPolygon, layerSection, timeseriesSection, checkedLayer,
              layerStatus, geeLayer, fetches, loaded>>

allVars == <<vars, pageVars>>

-----------------------------------------------------------------------------
(* Bounds of the model. *)

\* the largest filtered image collection the service answers with
MaxImages == 2
\* the number of polygons the user draws
MaxPolygons == 3
\* the number of /tiles fetches of the page that are unanswered at a time
MaxFetches == 2

-----------------------------------------------------------------------------
(* JSON values as Python sees them after request.get_json().  A string is   *)
(* a sequence of one-character strings; a float is held in tenths.          *)

JV(k, n, s) == [k |-> k, n |-> n, s |-> s]

\* the key is not in the body: data.get(key) gives None, data.get(key, d) gives d
Absent == JV("absent", 0, <<>>)
JNull == JV("null", 0, <<>>)
JInt(n) == JV("int", n, <<>>)
JFloat(tenths) == JV("float", tenths, <<>>)
JBool(b) == JV("bool", IF b THEN 1 ELSE 0, <<>>)
JStr(s) == JV("str", 0, s)
\* a JSON object with n members (a GeoJSON geometry has at least two)
JObj(n) == JV("object", n, <<>>)

\* Python truthiness, as used by "not geom" and "start and end"
Truthy(v) ==
    CASE v.k \in {"absent", "null"} -> FALSE
      [] v.k \in {"int", "float", "bool", "object"} -> v.n # 0
      [] v.k = "str" -> Len(v.s) > 0

\* dict.get(key, default)
Get(v, default) == IF v.k = "absent" THEN default ELSE v

Digits == {"0", "1", "2", "3", "4", "5", "6", "7", "8", "9"}

DigitVal(c) ==
    CASE c = "0" -> 0 [] c = "1" -> 1 [] c = "2" -> 2 [] c = "3" -> 3
      [] c = "4" -> 4 [] c = "5" -> 5 [] c = "6" -> 6 [] c = "7" -> 7
      [] c = "8" -> 8 [] c = "9" -> 9

RECURSIVE Strip(_)
\* str.strip(): leading and trailing blanks removed
Strip(s) ==
    IF Len(s) > 0 /\ Head(s) = " " THEN Strip(Tail(s))
    ELSE IF Len(s) > 0 /\ s[Len(s)] = " " THEN Strip(SubSeq(s, 1, Len(s) - 1))
    ELSE s

RECURSIVE DecVal(_)
\* the value of a non-empty run of decimal digits
DecVal(s) ==
    IF Len(s) = 0 THEN 0
    ELSE 10 * DecVal(SubSeq(s, 1, Len(s) - 1)) + DigitVal(s[Len(s)])

IntOk(n) == [ok |-> TRUE, n |-> n, exc |-> ""]
IntErr(exc) == [ok |-> FALSE, n |-> 0, exc |-> exc]

\* int(str): blanks stripped, one optional sign, then decimal digits only
ParseInt(s) ==
    LET t == Strip(s)
        signed == Len(t) > 0 /\ Head(t) \in {"+", "-"}
        d == IF signed THEN Tail(t) ELSE t
    IN  IF Len(d) > 0 /\ \A i \in 1..Len(d) : d[i] \in Digits
        THEN IntOk(IF signed /\ Head(t) = "-" THEN -DecVal(d) ELSE DecVal(d))
        ELSE IntErr("ValueError")

\* Python's int(v): truncation toward zero for a float, parsing for a string,
\* TypeError for None and for containers
PyInt(v) ==
    CASE v.k = "int" -> IntOk(v.n)
      [] v.k = "bool" -> IntOk(v.n)
      [] v.k = "float" ->
            IntOk(IF v.n >= 0 THEN v.n \div 10 ELSE -((-v.n) \div 10))
      [] v.k = "str" -> ParseInt(v.s)
      [] OTHER -> IntErr("TypeError")

UpperChar(c) ==
    CASE c = "n" -> "N" [] c = "d" -> "D" [] c = "v" -> "V" [] c = "i" -> "I"
      [] c = "r" -> "R" [] c = "g" -> "G" [] c = "b" -> "B"
      [] OTHER -> c

\* str.upper()
Upper(s) == [i \in 1..Len(s) |-> UpperChar(s[i])]

-----------------------------------------------------------------------------
(* Module load: lines 26-77. *)

Unset == "<unset>"
\* os.environ.get(name) is None or '' : falsy
EnvTruthy(v) == v # Unset /\ v # ""

Envs == [service_account : {Unset, "", "x"},
         key_path : {Unset, "", "x"},
         key_json : {Unset, "x"}]

\* one credential attempt: which credentials, which key source, the outcome
Attempt(kind, key, ok) == [kind |-> kind, key |-> key, ok |-> ok]

\* what the environment does to the calls of init_ee_from_env
Outcomes == [defaultOk : BOOLEAN,         \* ee.Initialize() returns
             tempOk : BOOLEAN,            \* the temporary key file is written
             saOk : BOOLEAN]              \* ServiceAccountCredentials + Initialize return

InitResult(threw, ok, msg, initialized, initError, atts) ==
    [raised |-> threw, ok |-> ok, msg |-> msg, initialized |-> initialized,
     initError |-> initError, attempts |-> atts]

\* lines 69-70: "except Exception as default_err" unbinds default_err when the
\* clause ends (line 41-42), so str(default_err) raises UnboundLocalError
Line69(atts) ==
    InitResult(TRUE, FALSE, "", FALSE, "None", atts)

\* init_ee_from_env with line 51 written "if key_json:": the inline key wins over
\* the key file
init_ee_inline_first(e, o) ==
    LET a0 == <<Attempt("default", "none", o.defaultOk)>>
        inline == EnvTruthy(e.key_json)
        key == IF inline THEN "inline" ELSE "file"
        haveKey == inline \/ EnvTruthy(e.key_path)
    IN  IF o.defaultOk
        THEN InitResult(FALSE, TRUE, "initialized with default credentials",
                        TRUE, "None", a0)
        ELSE IF EnvTruthy(e.service_account)
        THEN IF inline /\ ~o.tempOk
             THEN InitResult(FALSE, FALSE, "service-account init failed: e",
                             FALSE, "e", a0)
             ELSE IF ~haveKey
             THEN InitResult(FALSE, FALSE,
                      "EE_SERVICE_ACCOUNT set but no credentials file provided",
                      FALSE, "None", a0)
             ELSE IF o.saOk
             THEN InitResult(FALSE, TRUE, "initialized with service account x",
                      TRUE, "None",
                      Append(a0, Attempt("service_account", key, TRUE)))
             ELSE InitResult(FALSE, FALSE, "service-account init failed: e",
                      FALSE, "e",
                      Append(a0, Attempt("service_account", key, FALSE)))
        ELSE Line69(a0)

\* lines 34-70.  initialized / initError are the globals as the function leaves
\* them; raised says the function ended in an exception instead of returning
init_ee_from_env(e, o) ==
    LET a0 == <<Attempt("default", "none", o.defaultOk)>>
        inline == EnvTruthy(e.key_json) /\ ~EnvTruthy(e.key_path)
        key == IF inline THEN "inline" ELSE "file"
        haveKey == inline \/ EnvTruthy(e.key_path)
    IN  IF o.defaultOk
        THEN InitResult(FALSE, TRUE, "initialized with default credentials",
                        TRUE, "None", a0)
        ELSE IF EnvTruthy(e.service_account)
        THEN IF inline /\ ~o.tempOk
             THEN InitResult(FALSE, FALSE, "service-account init failed: e",
                             FALSE, "e", a0)
             ELSE IF ~haveKey
             THEN InitResult(FALSE, FALSE,
                      "EE_SERVICE_ACCOUNT set but no credentials file provided",
                      FALSE, "None", a0)
             ELSE IF o.saOk
             THEN InitResult(FALSE, TRUE, "initialized with service account x",
                      TRUE, "None",
                      Append(a0, Attempt("service_account", key, TRUE)))
             ELSE InitResult(FALSE, FALSE, "service-account init failed: e",
                      FALSE, "e",
                      Append(a0, Attempt("service_account", key, FALSE)))
        ELSE Line69(a0)

NoRequest == [endpoint |-> "none"]
NoResponse == [kind |-> "none"]
\* the service's answer: the tile URL of getMapId, the filtered collection
\* behind the two getInfo calls
Answer(url, coll) == [url |-> url, coll |-> coll]
NoAnswer == Answer("", <<>>)

\* the tile layer loadImagery put on the map: whose polygon, which layer
TileLayer(polygon, layer) == [polygon |-> polygon, layer |-> layer]
NoLayer == TileLayer(0, "")

\* lines 339, 342, 348, 351, 377: the page as it is served
PageLoaded ==
    /\ currentPolygon = 0
    /\ layerSection = FALSE
    /\ timeseriesSection = FALSE
    /\ checkedLayer = "RGB"
    /\ layerStatus = ""
    /\ geeLayer = NoLayer
    /\ fetches = <<>>
    /\ loaded = {}

Init ==
    /\ pc = "load"
    /\ env \in Envs
    /\ EE_AVAILABLE = FALSE
    /\ EE_INITIALIZED = FALSE
    /\ EE_INIT_ERROR = "None"
    /\ attempts = <<>>
    /\ request = NoRequest
    /\ response = NoResponse
    /\ calls = <<>>
    /\ raised = 0
    /\ answer = NoAnswer
    /\ bodyRead = FALSE
    /\ PageLoaded

\* lines 30-32 and 76-77 with "import ee" failing
ImportFails ==
    /\ pc = "load"
    /\ pc' = "serving"
    /\ EE_AVAILABLE' = FALSE
    /\ UNCHANGED <<env, EE_INITIALIZED, EE_INIT_ERROR, attempts, request,
                   response, calls, raised, answer, bodyRead>>
    /\ UNCHANGED pageVars

\* lines 30-77 with "import ee" succeeding
ModuleLoad ==
    /\ pc = "load"
    /\ \E o \in Outcomes :
         LET r == init_ee_from_env(env, o)
         IN  /\ attempts' = r.attempts
             /\ IF r.raised
                THEN \* line 76-77: the module-level except
                     /\ EE_AVAILABLE' = FALSE
                     /\ EE_INITIALIZED' = r.initialized
                     /\ EE_INIT_ERROR' = r.initError
                ELSE \* lines 72-75
                     /\ EE_AVAILABLE' = TRUE
                     /\ EE_INITIALIZED' = r.ok
                     /\ EE_INIT_ERROR' = IF r.ok THEN r.initError ELSE r.msg
    /\ pc' = "serving"
    /\ UNCHANGED <<env, request, response, calls, raised, answer, bodyRead>>
    /\ UNCHANGED pageVars

-----------------------------------------------------------------------------
(* Requests and responses. *)

Body(geometry, layer, start, end, cloud_threshold, buffer, scale) ==
    [geometry |-> geometry, layer |-> layer, start |-> start, end |-> end,
     cloud_threshold |-> cloud_threshold, buffer |-> buffer, scale |-> scale]

EmptyBody == Body(Absent, Absent, Absent, Absent, Absent, Absent, Absent)

\* kind: "object" for a JSON object, "falsy" for a JSON value Python treats as
\* false ([], 0, "", null: replaced by {} on line 103), "other" for any other
\* JSON value (a non-empty list, a number, a string)
Request(endpoint, kind, body) == [endpoint |-> endpoint, kind |-> kind, body |-> body]

Geometries == {Absent, JNull, JObj(0), JObj(2)}
Layers == {Absent, JNull, JStr(<<"R", "G", "B">>), JStr(<<"N", "D", "V", "I">>),
           JStr(<<"n", "d", "v", "i">>), JStr(<<"x", "y", "z">>)}
Date1 == JStr(<<"2", "4", "-", "0", "1">>)
Date2 == JStr(<<"2", "4", "-", "1", "2">>)
DateRanges == {<<Absent, Absent>>, <<Date1, Date2>>, <<Date1, JStr(<<>>)>>}
CloudThresholds == {Absent, JNull, JInt(30), JFloat(125), JStr(<<"3", "0">>),
                    JStr(<<"a", "b", "c">>)}
Buffers == {Absent, JInt(100), JStr(<<"1", "x">>)}
Scales == {Absent, JInt(30), JFloat(-15), JBool(TRUE)}

TilesBodies ==
    {Body(g, l, d[1], d[2], c, b, Absent) :
        g \in Geometries, l \in Layers, d \in DateRanges,
        c \in CloudThresholds, b \in Buffers}

TimeseriesBodies ==
    {Body(g, Absent, d[1], d[2], c, Absent, s) :
        g \in Geometries, d \in DateRanges, c \in CloudThresholds, s \in Scales}

Requests ==
    {Request("/tiles", "object", b) : b \in TilesBodies}
      \cup {Request("/timeseries", "object", b) : b \in TimeseriesBodies}
      \cup {Request(ep, k, EmptyBody) :
              ep \in {"/tiles", "/timeseries"}, k \in {"falsy", "other"}}
      \cup {Request(ep, "none", EmptyBody) : ep \in {"/", "/monitor"}}

Response(kind, code, status, error, tile_url, series) ==
    [kind |-> kind, code |-> code, status |-> status, error |-> error,
     tile_url |-> tile_url, series |-> series]

\* jsonify({'status': 'error', 'error': msg}), code
ErrorEnvelope(code, msg) == Response("json", code, "error", msg, "", <<>>)
\* jsonify({'status': 'ok', 'tile_url': url})
TileEnvelope(url) == Response("json", 200, "ok", "", url, <<>>)
\* jsonify({'status': 'ok', 'series': series})
SeriesEnvelope(series) == Response("json", 200, "ok", "", "", series)
\* an exception that leaves the view function: Flask answers for it
Uncaught(exc) == Response("uncaught", 500, "", exc, "", <<>>)

-----------------------------------------------------------------------------
(* The ee call log. *)

Term(t, n, s, v) == [t |-> t, n |-> n, s |-> s, v |-> v]
Lit(s) == Term("lit", 0, s, JNull)      \* a string literal of the source
Num(n) == Term("num", n, "", JNull)     \* a Python int
Ref(i) == Term("ref", i, "", JNull)     \* the object call i returned
Val(v) == Term("val", 0, "", v)         \* a value of the request body as is

\* on: the call whose result is the receiver, 0 for a function of the ee module
Call(op, on, args) == [op |-> op, on |-> on, args |-> args]
Chain(plan, op, args) == Append(plan, Call(op, Len(plan), args))
Fresh(plan, op, args) == Append(plan, Call(op, 0, args))
On(plan, i, op, args) == Append(plan, Call(op, i, args))

\* lines 120 and 596: os.environ.get('EE_S2_COLLECTION', ...) with the variable
\* unset, as it is in every environment of the model
coll_id == "COPERNICUS/S2_SR_HARMONIZED"

DefaultCloudThreshold == 20
DefaultBuffer == 500
DefaultScale == 10
SeriesLimit == 256

\* the result of running a handler
Run(resp, log, read, exc) ==
    [response |-> resp, calls |-> log, bodyRead |-> read, raised |-> exc]

\* lines 100-101 and 581-582
NotInitialized ==
    Run(ErrorEnvelope(500, "EE not initialized: " \o EE_INIT_ERROR), <<>>, FALSE, 0)

-----------------------------------------------------------------------------
(* POST /tiles: lines 92-146. *)

\* tilesQuery with the cloud-cover filter fixed at the documented 20
tilesQuery_FixedCloud(b, buffer_meters, cloud_threshold) ==
    LET p1 == Fresh(<<>>, "Geometry", <<Val(b.geometry)>>)
        p2 == Chain(p1, "buffer", <<Num(buffer_meters)>>)
        p3 == Chain(p2, "bounds", <<>>)
        p4 == Fresh(p3, "ImageCollection", <<Lit(coll_id)>>)
        p5 == IF Truthy(b.start) /\ Truthy(b.end)
              THEN Chain(p4, "filterDate", <<Val(b.start), Val(b.end)>>)
              ELSE p4
        p6 == Chain(p5, "filterBounds", <<Ref(1)>>)
    IN  Chain(p6, "filterMetadata",
              <<Lit("CLOUDY_PIXEL_PERCENTAGE"), Lit("less_than"),
                Num(DefaultCloudThreshold)>>)

\* lines 116-128: the calls up to the cloud-cover filter
tilesQuery(b, buffer_meters, cloud_threshold) ==
    LET p1 == Fresh(<<>>, "Geometry", <<Val(b.geometry)>>)
        p2 == Chain(p1, "buffer", <<Num(buffer_meters)>>)
        p3 == Chain(p2, "bounds", <<>>)
        p4 == Fresh(p3, "ImageCollection", <<Lit(coll_id)>>)
        p5 == IF Truthy(b.start) /\ Truthy(b.end)
              THEN Chain(p4, "filterDate", <<Val(b.start), Val(b.end)>>)
              ELSE p4
        p6 == Chain(p5, "filterBounds", <<Ref(1)>>)
    IN  Chain(p6, "filterMetadata",
              <<Lit("CLOUDY_PIXEL_PERCENTAGE"), Lit("less_than"), Num(cloud_threshold)>>)

\* lines 131-133 and 139
tilesNDVI(q) ==
    LET v1 == Chain(q, "select", <<Lit("B8"), Lit("B4")>>)
        v2 == Chain(v1, "median", <<>>)
        v3 == Chain(v2, "normalizedDifference", <<Lit("B8"), Lit("B4")>>)
        v4 == Chain(v3, "clip", <<Ref(3)>>)
        v5 == Chain(v4, "visualize",
                    <<Lit("min"), Num(0), Lit("max"), Num(1),
                      Lit("palette"), Lit("white"), Lit("green")>>)
    IN  Chain(v5, "getMapId", <<>>)

\* lines 135-136 and 139
tilesRGB(q) ==
    LET v1 == Chain(q, "select", <<Lit("B4"), Lit("B3"), Lit("B2")>>)
        v2 == Chain(v1, "median", <<>>)
        v3 == Chain(v2, "clip", <<Ref(3)>>)
        v4 == Chain(v3, "visualize", <<Lit("min"), Num(0), Lit("max"), Num(3000)>>)
    IN  Chain(v4, "getMapId", <<>>)

\* line 130 written layer == 'NDVI'
IsNDVI_CaseSensitive(layer) == layer.s = <<"N", "D", "V", "I">>

\* line 130: layer.upper() == 'NDVI'
IsNDVI(layer) == Upper(layer.s) = <<"N", "D", "V", "I">>

\* lines 114-146: the calls the try block makes when none of them raises;
\* a layer that is no string stops it at line 130
tilesPlan(b, buffer_meters, cloud_threshold) ==
    LET q == tilesQuery(b, buffer_meters, cloud_threshold)
        layer == Get(b.layer, JStr(<<"R", "G", "B">>))
    IN  IF layer.k # "str" THEN q
        ELSE IF IsNDVI(layer) THEN tilesNDVI(q)
        ELSE tilesRGB(q)

\* the tile URL templates the service may answer with
Urls == {"https://ee/a/{z}/{x}/{y}", "https://ee/b/{z}/{x}/{y}"}
\* a getMapId result without a usable 'tile_fetcher' entry (line 140 raises)
NoTileFetcher == "<no tile_fetcher>"

\* tilesTry with a failed getMapId issued a second time before giving up
tilesTry_Retry(b, buffer_meters, cloud_threshold, failAt, url) ==
    LET plan == tilesPlan(b, buffer_meters, cloud_threshold)
        layer == Get(b.layer, JStr(<<"R", "G", "B">>))
    IN  IF failAt # 0
        THEN IF plan[failAt].op = "getMapId"
             THEN Run(ErrorEnvelope(500, "Could not generate tile URL from EE"),
                      Append(plan, plan[failAt]), TRUE, failAt)
             ELSE Run(ErrorEnvelope(500, "EEException"),
                      SubSeq(plan, 1, failAt), TRUE, failAt)
        ELSE IF layer.k # "str"
        THEN Run(ErrorEnvelope(500, "AttributeError"), plan, TRUE, 0)
        ELSE IF url = NoTileFetcher
        THEN Run(ErrorEnvelope(500, "Could not generate tile URL from EE"), plan, TRUE, 0)
        ELSE Run(TileEnvelope(url), plan, TRUE, 0)

\* lines 114-146 with call failAt raising (0: none raises) and the service
\* answering getMapId with url
tilesTry(b, buffer_meters, cloud_threshold, failAt, url) ==
    LET plan == tilesPlan(b, buffer_meters, cloud_threshold)
        layer == Get(b.layer, JStr(<<"R", "G", "B">>))
    IN  IF failAt # 0
        THEN Run(IF plan[failAt].op = "getMapId"
                 THEN ErrorEnvelope(500, "Could not generate tile URL from EE")
                 ELSE ErrorEnvelope(500, "EEException"),
                 SubSeq(plan, 1, failAt), TRUE, failAt)
        ELSE IF layer.k # "str"
        THEN Run(ErrorEnvelope(500, "AttributeError"), plan, TRUE, 0)
        ELSE IF url = NoTileFetcher
        THEN Run(ErrorEnvelope(500, "Could not generate tile URL from EE"), plan, TRUE, 0)
        ELSE Run(TileEnvelope(url), plan, TRUE, 0)

\* tilesRun with the body read and the geometry checked before the
\* initialisation guard
tilesRun_BodyFirst(req, failAt, url) ==
    LET b == req.body
        cloud_threshold == PyInt(Get(b.cloud_threshold, JInt(DefaultCloudThreshold)))
        buffer_meters == PyInt(Get(b.buffer, JInt(DefaultBuffer)))
    IN  IF req.kind = "other" THEN Run(Uncaught("AttributeError"), <<>>, TRUE, 0)
        ELSE IF ~cloud_threshold.ok THEN Run(Uncaught(cloud_threshold.exc), <<>>, TRUE, 0)
        ELSE IF ~buffer_meters.ok THEN Run(Uncaught(buffer_meters.exc), <<>>, TRUE, 0)
        ELSE IF ~Truthy(b.geometry)
        THEN Run(ErrorEnvelope(400, "No geometry provided"), <<>>, TRUE, 0)
        ELSE IF ~EE_AVAILABLE \/ ~EE_INITIALIZED
        THEN Run(ErrorEnvelope(500, "EE not initialized: " \o EE_INIT_ERROR),
                 <<>>, TRUE, 0)
        ELSE tilesTry(b, buffer_meters.n, cloud_threshold.n, failAt, url)

\* lines 100-146, the whole view function
tilesRun(req, failAt, url) ==
    LET b == req.body
        cloud_threshold == PyInt(Get(b.cloud_threshold, JInt(DefaultCloudThreshold)))
        buffer_meters == PyInt(Get(b.buffer, JInt(DefaultBuffer)))
    IN  IF ~EE_AVAILABLE \/ ~EE_INITIALIZED THEN NotInitialized
        ELSE IF req.kind = "other" THEN Run(Uncaught("AttributeError"), <<>>, TRUE, 0)
        ELSE IF ~cloud_threshold.ok THEN Run(Uncaught(cloud_threshold.exc), <<>>, TRUE, 0)
        ELSE IF ~buffer_meters.ok THEN Run(Uncaught(buffer_meters.exc), <<>>, TRUE, 0)
        ELSE IF ~Truthy(b.geometry)
        THEN Run(ErrorEnvelope(400, "No geometry provided"), <<>>, TRUE, 0)
        ELSE tilesTry(b, buffer_meters.n, cloud_threshold.n, failAt, url)

\* the number of ee calls a request would make, for the choice of failAt
tilesCalls(req) ==
    LET cloud_threshold == PyInt(Get(req.body.cloud_threshold, JInt(DefaultCloudThreshold)))
        buffer_meters == PyInt(Get(req.body.buffer, JInt(DefaultBuffer)))
    IN  IF EE_AVAILABLE /\ EE_INITIALIZED /\ req.kind # "other"
           /\ cloud_threshold.ok /\ buffer_meters.ok /\ Truthy(req.body.geometry)
        THEN Len(tilesPlan(req.body, buffer_meters.n, cloud_threshold.n))
        ELSE 0

\* tiles marking the service uninitialised when one of its calls raises
tiles_ClearsInitialized ==
    /\ pc = "serving"
    /\ request.endpoint = "/tiles"
    /\ response = NoResponse
    /\ \E failAt \in 0..tilesCalls(request) :
       \E url \in IF failAt = 0 /\ tilesCalls(request) > 0 THEN Urls \cup {NoTileFetcher}
                  ELSE {""} :
         LET r == tilesRun(request, failAt, url)
         IN  /\ response' = r.response
             /\ calls' = r.calls
             /\ raised' = r.raised
             /\ answer' = Answer(url, <<>>)
             /\ bodyRead' = r.bodyRead
             /\ EE_INITIALIZED' = (EE_INITIALIZED /\ r.raised = 0)
    /\ UNCHANGED <<pc, env, EE_AVAILABLE, EE_INIT_ERROR, attempts, request>>
    /\ UNCHANGED pageVars

tiles ==
    /\ pc = "serving"
    /\ request.endpoint = "/tiles"
    /\ response = NoResponse
    /\ \E failAt \in 0..tilesCalls(request) :
       \E url \in IF failAt = 0 /\ tilesCalls(request) > 0 THEN Urls \cup {NoTileFetcher}
                  ELSE {""} :
         LET r == tilesRun(request, failAt, url)
         IN  /\ response' = r.response
             /\ calls' = r.calls
             /\ raised' = r.raised
             /\ answer' = Answer(url, <<>>)
             /\ bodyRead' = r.bodyRead
    /\ UNCHANGED <<pc, env, EE_AVAILABLE, EE_INITIALIZED, EE_INIT_ERROR, attempts,
                   request>>
    /\ UNCHANGED pageVars

-----------------------------------------------------------------------------
(* POST /timeseries: lines 573-624. *)

\* an image of the filtered collection: its system:time_start and the mean NDVI
\* over the region, JNull when reduceRegion finds no unmasked pixel
Image(time, mean) == [time |-> time, mean |-> mean]
Means == {JNull, JFloat(3)}
\* acquisition times (system:time_start), two to a day
Times == {1, 2, 3}
Images == [time : Times, mean : Means]

RECURSIVE SeqsUpTo(_, _)
\* the sequences over S of length at most n
SeqsUpTo(S, n) ==
    IF n = 0 THEN {<<>>}
    ELSE LET shorter == SeqsUpTo(S, n - 1)
         IN  shorter \cup {Append(q, x) : q \in {r \in shorter : Len(r) = n - 1}, x \in S}

\* the filtered collections the service may hold, in the service's own order
Collections == SeqsUpTo(Images, MaxImages)

RECURSIVE Insert(_, _)
\* img put into a time-sorted sequence after the images that are not later
Insert(sorted, img) ==
    IF Len(sorted) = 0 THEN <<img>>
    ELSE IF Head(sorted).time <= img.time
         THEN <<Head(sorted)>> \o Insert(Tail(sorted), img)
         ELSE <<img>> \o sorted

RECURSIVE SortByTime(_)
\* .sort('system:time_start'): ascending, images of equal time keep their order
SortByTime(c) ==
    IF Len(c) = 0 THEN <<>>
    ELSE Insert(SortByTime(SubSeq(c, 1, Len(c) - 1)), c[Len(c)])

\* .limit(256)
Limit(c, n) == IF Len(c) <= n THEN c ELSE SubSeq(c, 1, n)

\* line 610: ee.Date(time).format('YYYY-MM-dd'); two acquisition times to a day
FormatDate(time) == (time + 1) \div 2

\* line 611: img.set('mean_ndvi', mean_ndvi).set('date', date); setting a
\* property to null leaves the image without that property
add_ndvi_stats(img) ==
    [time |-> img.time, date |-> FormatDate(img.time), mean_ndvi |-> img.mean,
     has_mean |-> img.mean # JNull]

\* line 613
stats_coll(c) ==
    Limit(SortByTime([i \in 1..Len(c) |-> add_ndvi_stats(c[i])]), SeriesLimit)

RECURSIVE KeepMean(_)
\* the images that have a mean_ndvi property, in order
KeepMean(c) ==
    IF Len(c) = 0 THEN <<>>
    ELSE IF Head(c).has_mean THEN <<Head(c)>> \o KeepMean(Tail(c))
    ELSE KeepMean(Tail(c))

\* line 616: aggregate_array('date').getInfo()
AggregateDates(c) == [i \in 1..Len(c) |-> c[i].date]

\* line 617: aggregate_array('mean_ndvi').getInfo(); aggregate_array lists the
\* property of the images that have it and skips the others
AggregateMeans(c) ==
    LET have == KeepMean(c) IN [i \in 1..Len(have) |-> have[i].mean_ndvi]

\* line 620: zip stops at the shorter list
Zip(dates, values) ==
    LET n == IF Len(dates) <= Len(values) THEN Len(dates) ELSE Len(values)
    IN  [i \in 1..n |-> [date |-> dates[i], value |-> values[i]]]

\* timeseriesQuery with line 599 written "if start:"
timeseriesQuery_StartOnly(b, cloud_threshold) ==
    LET p1 == Fresh(<<>>, "Geometry", <<Val(b.geometry)>>)
        p2 == Fresh(p1, "ImageCollection", <<Lit(coll_id)>>)
        p3 == IF Truthy(b.start)
              THEN Chain(p2, "filterDate", <<Val(b.start), Val(b.end)>>)
              ELSE p2
        p4 == Chain(p3, "filterBounds", <<Ref(1)>>)
    IN  Chain(p4, "filterMetadata",
              <<Lit("CLOUDY_PIXEL_PERCENTAGE"), Lit("less_than"), Num(cloud_threshold)>>)

\* lines 595-604
timeseriesQuery(b, cloud_threshold) ==
    LET p1 == Fresh(<<>>, "Geometry", <<Val(b.geometry)>>)
        p2 == Fresh(p1, "ImageCollection", <<Lit(coll_id)>>)
        p3 == IF Truthy(b.start) /\ Truthy(b.end)
              THEN Chain(p2, "filterDate", <<Val(b.start), Val(b.end)>>)
              ELSE p2
        p4 == Chain(p3, "filterBounds", <<Ref(1)>>)
    IN  Chain(p4, "filterMetadata",
              <<Lit("CLOUDY_PIXEL_PERCENTAGE"), Lit("less_than"), Num(cloud_threshold)>>)

\* lines 607-613: coll.map runs add_ndvi_stats once, on the image placeholder
\* that the map call (call m) stands for
timeseriesMap(q, scale) ==
    LET m == Len(q) + 1
        s0 == Chain(q, "map", <<Lit("add_ndvi_stats")>>)
        s1 == On(s0, m, "normalizedDifference", <<Lit("B8"), Lit("B4")>>)
        s2 == Chain(s1, "rename", <<Lit("NDVI")>>)
        s3 == Fresh(s2, "Reducer.mean", <<>>)
        s4 == On(s3, m + 2, "reduceRegion", <<Ref(m + 3), Ref(1), Num(scale)>>)
        s5 == Chain(s4, "get", <<Lit("NDVI")>>)
        s6 == On(s5, m, "get", <<Lit("system:time_start")>>)
        s7 == Fresh(s6, "Date", <<Ref(m + 6)>>)
        s8 == Chain(s7, "format", <<Lit("YYYY-MM-dd")>>)
        s9 == On(s8, m, "set", <<Lit("mean_ndvi"), Ref(m + 5)>>)
        s10 == Chain(s9, "set", <<Lit("date"), Ref(m + 8)>>)
        s11 == On(s10, m, "sort", <<Lit("system:time_start")>>)
    IN  Chain(s11, "limit", <<Num(SeriesLimit)>>)

\* lines 616-617
timeseriesFetch(p) ==
    LET sc == Len(p)
        f1 == Chain(p, "aggregate_array", <<Lit("date")>>)
        f2 == Chain(f1, "getInfo", <<>>)
        f3 == On(f2, sc, "aggregate_array", <<Lit("mean_ndvi")>>)
    IN  Chain(f3, "getInfo", <<>>)

\* lines 594-622: the calls the try block makes when none of them raises
timeseriesPlan(b, scale, cloud_threshold) ==
    timeseriesFetch(timeseriesMap(timeseriesQuery(b, cloud_threshold), scale))

\* lines 594-624 with call failAt raising (0: none raises) and the service
\* holding the filtered collection coll
timeseriesTry(b, scale, cloud_threshold, failAt, coll) ==
    LET plan == timeseriesPlan(b, scale, cloud_threshold)
        sc == stats_coll(coll)
    IN  IF failAt # 0
        THEN Run(ErrorEnvelope(500, "EEException"), SubSeq(plan, 1, failAt), TRUE, failAt)
        ELSE Run(SeriesEnvelope(Zip(AggregateDates(sc), AggregateMeans(sc))), plan, TRUE, 0)

\* lines 581-624, the whole view function
timeseriesRun(req, failAt, coll) ==
    LET b == req.body
        scale == PyInt(Get(b.scale, JInt(DefaultScale)))
        cloud_threshold == PyInt(Get(b.cloud_threshold, JInt(DefaultCloudThreshold)))
    IN  IF ~EE_AVAILABLE \/ ~EE_INITIALIZED THEN NotInitialized
        ELSE IF req.kind = "other" THEN Run(Uncaught("AttributeError"), <<>>, TRUE, 0)
        ELSE IF ~scale.ok THEN Run(Uncaught(scale.exc), <<>>, TRUE, 0)
        ELSE IF ~cloud_threshold.ok THEN Run(Uncaught(cloud_threshold.exc), <<>>, TRUE, 0)
        ELSE IF ~Truthy(b.geometry)
        THEN Run(ErrorEnvelope(400, "No geometry provided"), <<>>, TRUE, 0)
        ELSE timeseriesTry(b, scale.n, cloud_threshold.n, failAt, coll)

\* the number of ee calls a request would make, for the choice of failAt
timeseriesCalls(req) ==
    LET scale == PyInt(Get(req.body.scale, JInt(DefaultScale)))
        cloud_threshold == PyInt(Get(req.body.cloud_threshold, JInt(DefaultCloudThreshold)))
    IN  IF EE_AVAILABLE /\ EE_INITIALIZED /\ req.kind # "other"
           /\ cloud_threshold.ok /\ scale.ok /\ Truthy(req.body.geometry)
        THEN Len(timeseriesPlan(req.body, scale.n, cloud_threshold.n))
        ELSE 0

timeseries ==
    /\ pc = "serving"
    /\ request.endpoint = "/timeseries"
    /\ response = NoResponse
    /\ \E failAt \in 0..timeseriesCalls(request) :
       \E coll \in IF failAt = 0 /\ timeseriesCalls(request) > 0
                   THEN Collections ELSE {<<>>} :
         LET r == timeseriesRun(request, failAt, coll)
         IN  /\ response' = r.response
             /\ calls' = r.calls
             /\ raised' = r.raised
             /\ answer' = Answer("", coll)
             /\ bodyRead' = r.bodyRead
    /\ UNCHANGED <<pc, env, EE_AVAILABLE, EE_INITIALIZED, EE_INIT_ERROR, attempts,
                   request>>
    /\ UNCHANGED pageVars

-----------------------------------------------------------------------------
(* The web server around the view functions. *)

\* a request arrives and is routed (the app.route decorators)
Receive ==
    /\ pc = "serving"
    /\ request = NoRequest
    /\ request' \in Requests
    /\ response' = NoResponse
    /\ calls' = <<>>
    /\ raised' = 0
    /\ answer' = NoAnswer
    /\ bodyRead' = FALSE
    /\ UNCHANGED <<pc, env, EE_AVAILABLE, EE_INITIALIZED, EE_INIT_ERROR, attempts>>
    /\ UNCHANGED pageVars

\* the response is sent and the request context is dropped
Respond ==
    /\ pc = "serving"
    /\ response # NoResponse
    /\ request' = NoRequest
    /\ response' = NoResponse
    /\ calls' = <<>>
    /\ raised' = 0
    /\ answer' = NoAnswer
    /\ bodyRead' = FALSE
    /\ UNCHANGED <<pc, env, EE_AVAILABLE, EE_INITIALIZED, EE_INIT_ERROR, attempts>>
    /\ UNCHANGED pageVars

\* lines 80-82
index ==
    /\ pc = "serving"
    /\ request.endpoint = "/"
    /\ response = NoResponse
    /\ response' = Response("text", 200, "", "", "", <<>>)
    /\ UNCHANGED <<pc, env, EE_AVAILABLE, EE_INITIALIZED, EE_INIT_ERROR, attempts,
                   request, calls, raised, answer, bodyRead>>
    /\ UNCHANGED pageVars

\* lines 85-89
monitor ==
    /\ pc = "serving"
    /\ request.endpoint = "/monitor"
    /\ response = NoResponse
    /\ response' = Response("file", 200, "", "", "", <<>>)
    /\ UNCHANGED <<pc, env, EE_AVAILABLE, EE_INITIALIZED, EE_INIT_ERROR, attempts,
                   request, calls, raised, answer, bodyRead>>
    /\ UNCHANGED pageVars

Next ==
    \/ ImportFails
    \/ ModuleLoad
    \/ Receive
    \/ index
    \/ monitor
    \/ tiles
    \/ timeseries
    \/ Respond

Spec == Init /\ [][Next]_allVars
-----------------------------------------------------------------------------
(* The page monitor.html: lines 377-465.  The "Draw New Area" button of      *)
(* enableDrawing is never displayed (line 336), so the user cannot run it.   *)

\* a /tiles fetch of loadImagery: the polygon and the layer it was sent with
Fetch(polygon, layer) == [polygon |-> polygon, layer |-> layer]

\* what comes back for a fetch: status ok, status error, or no JSON at all
TilesOutcomes == {"ok", "error", "failed"}

\* s without its i-th element
Without(s, i) == SubSeq(s, 1, i - 1) \o SubSeq(s, i + 1, Len(s))

\* lines 404-416: the user finishes a shape.  Line 414 looks up the element
\* chartContainer, which the page does not have, so the function ends there in
\* a TypeError and line 415 never sets the status text
onDrawCreated ==
    /\ currentPolygon < MaxPolygons
    /\ currentPolygon' = currentPolygon + 1
    /\ layerSection' = TRUE
    /\ timeseriesSection' = FALSE
    /\ UNCHANGED <<checkedLayer, layerStatus, geeLayer, fetches, loaded>>
    /\ UNCHANGED vars

\* lines 342-345: the user checks one of the two radio buttons
checkLayer ==
    /\ layerSection
    /\ \E l \in {"RGB", "NDVI"} :
         /\ l # checkedLayer
         /\ checkedLayer' = l
    /\ UNCHANGED <<currentPolygon, layerSection, timeseriesSection, layerStatus,
                   geeLayer, fetches, loaded>>
    /\ UNCHANGED vars

\* lines 427-448: the user presses Load Imagery (the button is inside
\* #layerSection, so a polygon has been drawn)
loadImagery ==
    /\ layerSection
    /\ currentPolygon # 0
    /\ Len(fetches) < MaxFetches
    /\ layerStatus' = "Loading imagery..."
    /\ fetches' = Append(fetches, Fetch(currentPolygon, checkedLayer))
    /\ UNCHANGED <<currentPolygon, layerSection, timeseriesSection, checkedLayer,
                   geeLayer, loaded>>
    /\ UNCHANGED vars

\* lines 449-464: the answer to one of the unanswered fetches arrives
tilesAnswered ==
    /\ \E i \in 1..Len(fetches), outcome \in TilesOutcomes :
         LET f == fetches[i]
         IN  /\ fetches' = Without(fetches, i)
             /\ IF outcome = "ok"
                THEN /\ geeLayer' = TileLayer(f.polygon, f.layer)
                     /\ layerStatus' = "Showing " \o f.layer \o " composite."
                     /\ timeseriesSection' = TRUE
                     /\ loaded' = loaded \cup {f.polygon}
                ELSE /\ layerStatus' = "Error: " \o outcome
                     /\ UNCHANGED <<geeLayer, timeseriesSection, loaded>>
    /\ UNCHANGED <<currentPolygon, layerSection, checkedLayer>>
    /\ UNCHANGED vars

\* the page alone, in front of a server that has not answered anything yet
PageInit ==
    /\ Init
    /\ env = [service_account |-> Unset, key_path |-> Unset, key_json |-> Unset]

PageNext ==
    \/ onDrawCreated
    \/ checkLayer
    \/ loadImagery
    \/ tilesAnswered

PageSpec == PageInit /\ [][PageNext]_allVars

-----------------------------------------------------------------------------
(* Properties. *)

\* a POST /tiles or POST /timeseries request has been answered
Posted ==
    /\ pc = "serving"
    /\ request.endpoint \in {"/tiles", "/timeseries"}
    /\ response # NoResponse

IsOkEnvelope(r) == r.kind = "json" /\ r.code = 200 /\ r.status = "ok"
IsErrorEnvelope(r) ==
    r.kind = "json" /\ r.code \notin 200..299 /\ r.status = "error" /\ r.error # ""

\* the k-th arguments of the calls of op in this request's call log
Forwarded(op, k) ==
    {calls[i].args[k] : i \in {j \in 1..Len(calls) : calls[j].op = op}}

\* C1: every request to POST /tiles or POST /timeseries ends in the ok envelope
\* with HTTP 200 or in the error envelope with a non-2xx code; no exception
\* leaves the handler.
C1_AlwaysAnEnvelope ==
    Posted => IsOkEnvelope(response) \/ IsErrorEnvelope(response)

\* C2: with the service initialised, a body without geometry (absent, null or
\* empty) gets the 400 envelope 'No geometry provided' whatever the other
\* fields are, and no ee call is made.
C2_NoGeometryIs400 ==
    (/\ Posted
     /\ EE_AVAILABLE /\ EE_INITIALIZED
     /\ request.kind \in {"object", "falsy"}
     /\ ~Truthy(request.body.geometry))
    => /\ response.kind = "json"
       /\ response.code = 400
       /\ response.status = "error"
       /\ response.error = "No geometry provided"
       /\ calls = <<>>

\* C3: with the service unavailable or uninitialised, every POST gets the 500
\* error envelope before the body is read, whatever the body, and no ee call
\* is made.
C3_UninitializedIs500 ==
    (Posted /\ (~EE_AVAILABLE \/ ~EE_INITIALIZED))
    => /\ response.kind = "json"
       /\ response.code = 500
       /\ response.status = "error"
       /\ ~bodyRead
       /\ calls = <<>>

C3_Witness ==
    /\ Posted
    /\ EE_AVAILABLE /\ ~EE_INITIALIZED
    /\ request.endpoint = "/tiles"
    /\ request.kind = "object"
    /\ request.body.geometry = Absent
    /\ request.body.cloud_threshold = JStr(<<"a", "b", "c">>)
    /\ response.code = 500

\* the number n is the value v itself
Denotes(v, n) ==
    \/ v.k \in {"int", "bool"} /\ v.n = n
    \/ v.k = "float" /\ v.n = 10 * n
    \/ v.k = "str" /\ ParseInt(v.s) = IntOk(n)

\* the number n is int(v): v itself, or v cut toward zero when it has a fraction
IntOf(v, n) ==
    \/ v.k \in {"int", "bool"} /\ v.n = n
    \/ v.k = "float" /\ v.n >= 0 /\ 10 * n <= v.n /\ v.n < 10 * n + 10
    \/ v.k = "float" /\ v.n < 0 /\ 10 * n >= v.n /\ v.n > 10 * n - 10
    \/ v.k = "str" /\ ParseInt(v.s) = IntOk(n)

\* an answered request made the calls that carry its parameters
ParametersSent ==
    (Posted /\ IsOkEnvelope(response))
    => /\ Forwarded("filterMetadata", 3) # {}
       /\ request.endpoint = "/tiles" => Forwarded("buffer", 1) # {}
       /\ request.endpoint = "/timeseries" => Forwarded("reduceRegion", 3) # {}

\* C4 as stated: the default 20 / 500 / 10 when a parameter is omitted, and a
\* supplied parameter forwarded unchanged.
C4_SuppliedForwardedUnchanged ==
    /\ ParametersSent
    /\ Posted =>
         /\ \A t \in Forwarded("filterMetadata", 3) :
              /\ t.t = "num"
              /\ IF request.body.cloud_threshold = Absent THEN t.n = 20
                 ELSE Denotes(request.body.cloud_threshold, t.n)
         /\ \A t \in Forwarded("buffer", 1) :
              /\ t.t = "num"
              /\ IF request.body.buffer = Absent THEN t.n = 500
                 ELSE Denotes(request.body.buffer, t.n)
         /\ \A t \in Forwarded("reduceRegion", 3) :
              /\ t.t = "num"
              /\ IF request.body.scale = Absent THEN t.n = 10
                 ELSE Denotes(request.body.scale, t.n)

\* C4 (amended): the default 20 / 500 / 10 when a parameter is omitted, and a
\* supplied parameter forwarded as int() of it: an integer and a numeric string
\* as the same number, a number with a fraction cut toward zero.
C4_SuppliedForwardedAsInt ==
    /\ ParametersSent
    /\ Posted =>
         /\ \A t \in Forwarded("filterMetadata", 3) :
              /\ t.t = "num"
              /\ IF request.body.cloud_threshold = Absent THEN t.n = 20
                 ELSE IntOf(request.body.cloud_threshold, t.n)
         /\ \A t \in Forwarded("buffer", 1) :
              /\ t.t = "num"
              /\ IF request.body.buffer = Absent THEN t.n = 500
                 ELSE IntOf(request.body.buffer, t.n)
         /\ \A t \in Forwarded("reduceRegion", 3) :
              /\ t.t = "num"
              /\ IF request.body.scale = Absent THEN t.n = 10
                 ELSE IntOf(request.body.scale, t.n)

C4_Witness ==
    /\ Posted
    /\ request.endpoint = "/tiles"
    /\ IsOkEnvelope(response)
    /\ request.body.cloud_threshold = JFloat(125)
    /\ request.body.buffer = Absent
    /\ Forwarded("filterMetadata", 3) = {Num(12)}
    /\ Forwarded("buffer", 1) = {Num(500)}

\* C5: a successful /timeseries answer has one entry per image of the filtered
\* collection (the first 256 by acquisition time), in that order, the i-th
\* entry holding the i-th image's date and that image's mean, null when the
\* image has none.
C5_OneEntryPerImage ==
    (Posted /\ request.endpoint = "/timeseries" /\ IsOkEnvelope(response))
    => LET imgs == Limit(SortByTime(answer.coll), 256)
       IN  response.series =
             [i \in 1..Len(imgs) |->
                [date |-> FormatDate(imgs[i].time), value |-> imgs[i].mean]]

\* C6: nothing is retried: no ee call is issued twice with the same receiver
\* and arguments in one request, and once a call raises no further call is made
\* and the answer is the error envelope.
C6_NothingRetried ==
    Posted =>
      /\ \A i, j \in 1..Len(calls) : i < j => calls[i] # calls[j]
      /\ raised \in 0..Len(calls)
      /\ raised # 0 => raised = Len(calls) /\ IsErrorEnvelope(response)

C6_Witness ==
    /\ Posted
    /\ raised # 0
    /\ raised = Len(calls)
    /\ calls[raised].op = "getMapId"
    /\ response.error = "Could not generate tile URL from EE"

Configured(v) == v \notin {Unset, ""}

\* C8: default credentials are tried first; a service-account attempt is made
\* only after the default attempt failed and with EE_SERVICE_ACCOUNT set; it
\* uses the key file when EE_CREDENTIALS_FILE is set and the inline
\* EE_PRIVATE_KEY_JSON only when no file is set; with neither key source no
\* service-account attempt is made; EE_INITIALIZED is true exactly when an
\* attempt succeeded.
C8_CredentialOrder ==
    pc = "serving" =>
      /\ Len(attempts) <= 2
      /\ attempts # <<>> => attempts[1].kind = "default"
      /\ \A i \in 2..Len(attempts) :
           /\ attempts[i].kind = "service_account"
           /\ ~attempts[1].ok
           /\ Configured(env.service_account)
           /\ Configured(env.key_path) => attempts[i].key = "file"
           /\ attempts[i].key = "file" => Configured(env.key_path)
           /\ attempts[i].key = "inline" =>
                ~Configured(env.key_path) /\ Configured(env.key_json)
           /\ attempts[i].key \in {"file", "inline"}
      /\ (~Configured(env.key_path) /\ ~Configured(env.key_json)) => Len(attempts) <= 1
      /\ EE_INITIALIZED <=> \E i \in 1..Len(attempts) : attempts[i].ok

C8_Witness ==
    /\ pc = "serving"
    /\ Len(attempts) = 2
    /\ ~attempts[1].ok
    /\ attempts[2].key = "file"
    /\ Configured(env.key_json)
    /\ attempts[2].ok
    /\ EE_INITIALIZED

\* C9: when ee imports but every credential attempt fails, module load ends
\* with EE_AVAILABLE true, EE_INITIALIZED false and EE_INIT_ERROR holding the
\* failure message of init_ee_from_env.
C9_FailureCauseKept ==
    (/\ pc = "serving"
     /\ attempts # <<>>
     /\ \A i \in 1..Len(attempts) : ~attempts[i].ok)
    => /\ EE_AVAILABLE
       /\ ~EE_INITIALIZED
       /\ EE_INIT_ERROR \in
            {"default init failed: default_err",
             "EE_SERVICE_ACCOUNT set but no credentials file provided",
             "service-account init failed: e"}

\* s is "NDVI" up to the case of its letters
IsNDVIAnyCase(s) ==
    /\ Len(s) = 4
    /\ s[1] \in {"N", "n"} /\ s[2] \in {"D", "d"}
    /\ s[3] \in {"V", "v"} /\ s[4] \in {"I", "i"}

VizNDVI ==
    <<Lit("min"), Num(0), Lit("max"), Num(1), Lit("palette"), Lit("white"), Lit("green")>>
VizRGB == <<Lit("min"), Num(0), Lit("max"), Num(3000)>>

\* the visualisations this request asked the service for
Visualized == {calls[i].args : i \in {j \in 1..Len(calls) : calls[j].op = "visualize"}}

\* the request went through the whole try block without an ee call raising
RanThrough ==
    Posted /\ request.endpoint = "/tiles" /\ calls # <<>> /\ raised = 0

\* C10 as stated: the NDVI visualisation exactly when layer is 'NDVI' ignoring
\* case, the RGB visualisation for every other value and when layer is omitted;
\* on success tile_url is the URL the service gave.
C10_LayerAloneSelects ==
    /\ RanThrough =>
         LET layer == request.body.layer
         IN  IF layer.k = "str" /\ IsNDVIAnyCase(layer.s)
             THEN Visualized = {VizNDVI} /\ Forwarded("normalizedDifference", 1) # {}
             ELSE Visualized = {VizRGB} /\ Forwarded("normalizedDifference", 1) = {}
    /\ (Posted /\ request.endpoint = "/tiles" /\ IsOkEnvelope(response))
         => response.tile_url = answer.url

\* C10 (amended): the NDVI visualisation exactly when layer is a string equal
\* to 'NDVI' ignoring case, the RGB visualisation for every other string and
\* when layer is omitted; a layer that is not a string (null) asks for no
\* visualisation and gets the 500 error envelope; on success tile_url is the
\* URL the service gave.
C10_StringLayerSelects ==
    /\ RanThrough =>
         LET layer == request.body.layer
         IN  IF layer.k = "str" /\ IsNDVIAnyCase(layer.s)
             THEN Visualized = {VizNDVI} /\ Forwarded("normalizedDifference", 1) # {}
             ELSE IF layer.k \in {"str", "absent"}
             THEN Visualized = {VizRGB} /\ Forwarded("normalizedDifference", 1) = {}
             ELSE /\ Visualized = {}
                  /\ IsErrorEnvelope(response)
                  /\ response.code = 500
    /\ (Posted /\ request.endpoint = "/tiles" /\ IsOkEnvelope(response))
         => response.tile_url = answer.url

C10_Witness ==
    /\ RanThrough
    /\ IsOkEnvelope(response)
    /\ request.body.layer = JStr(<<"n", "d", "v", "i">>)
    /\ Visualized = {VizNDVI}
    /\ response.tile_url = answer.url
    /\ answer.url \in Urls

\* the places in this request's call log where op was called
Places(op) == {i \in 1..Len(calls) : calls[i].op = op}

\* a value of the body is supplied: present and not empty
Supplied(v) ==
    /\ v.k \notin {"absent", "null"}
    /\ v.k = "str" => v.s # <<>>
    /\ v.k # "str" => v.n # 0

\* the calls went past the building of the query
QueryBuilt ==
    \/ calls # <<>> /\ raised = 0
    \/ Places("select") # {}
    \/ Places("map") # {}

\* C11: in both handlers the date filter comes before the bounds filter and
\* the bounds filter before the cloud-cover filter; the bounds and cloud-cover
\* filters are on every query that gets built; the date filter is applied
\* exactly when both start and end are supplied, and skipped without an error
\* when either is missing or empty.
C11_FilterOrder ==
    Posted =>
      /\ \A op \in {"filterDate", "filterBounds", "filterMetadata"} :
           Cardinality(Places(op)) <= 1
      /\ \A d \in Places("filterDate"), b \in Places("filterBounds") : d < b
      /\ \A b \in Places("filterBounds"), c \in Places("filterMetadata") : b < c
      /\ Places("filterMetadata") # {} => Places("filterBounds") # {}
      /\ QueryBuilt => Places("filterBounds") # {} /\ Places("filterMetadata") # {}
      /\ \A d \in Places("filterDate") :
           /\ Supplied(request.body.start) /\ Supplied(request.body.end)
           /\ calls[d].args = <<Val(request.body.start), Val(request.body.end)>>
      /\ (/\ Places("filterBounds") # {}
          /\ Supplied(request.body.start) /\ Supplied(request.body.end))
           => Places("filterDate") # {}

C11_Witness ==
    /\ Posted
    /\ request.endpoint = "/timeseries"
    /\ IsOkEnvelope(response)
    /\ Supplied(request.body.start)
    /\ request.body.end = JStr(<<>>)
    /\ Places("filterDate") = {}
    /\ Places("filterBounds") # {}
    /\ Places("filterMetadata") # {}

\* C12: in the page the time-series section is displayed only when a /tiles
\* answer of status ok has come back for the polygon now drawn: drawing a new
\* polygon hides it, and it stays hidden until a /tiles request sent for that
\* polygon is answered ok.
C12_SectionOnlyForCurrentPolygon ==
    timeseriesSection => currentPolygon \in loaded

====
